---- MODULE Spec2Model ----
(***************************************************************************)
(* Model of the oscar-io document readers (src/oscar_doc/reader.rs) and of *)
(* the exploratory nested-column encoder (src/oscar_doc/write/             *)
(* writer_parquet.rs).                                                     *)
(*                                                                         *)
(* Bytes are the strings "n" (line feed), "a" and "b" (each the complete   *)
(* JSON text of one valid Document), "x" (a byte that is no valid JSON)    *)
(* and "u" (a byte that is not valid UTF-8).  A readable stream is the     *)
(* sequence of non-empty chunks that successive fill_buf calls deliver.    *)
(***************************************************************************)
EXTENDS Integers, Sequences, FiniteSets, TLC

VARIABLES
    content,      \* DocReader harness: the uncompressed bytes
    cuts,         \* DocReader harness: byte positions where a gzip member ends
    r,            \* DocReader::new(content).r
    gz,           \* DocReader::from_gzip(gzip(content)).r
    out,          \* results of the pulls on the plain reader, in order
    gzout,        \* results of the pulls on the gzip reader, in order
    fs,           \* SplitFileIter harness: shard index -> what File::open finds there
    sf,           \* the SplitFileIter: counter_start, counter, current_file
    sfHist,       \* results of the pulls on the SplitFileIter, in order
    sfOpens,      \* shard indices File::open was called with, in order
    sfEvents,     \* what the pulls on the SplitFileIter did, in program order
    sfDepth,      \* nested invocations of next during the latest pull
    loc,          \* SplitFolderFileIter harness: what the given location holds
    ff,           \* the result of SplitFolderFileIter::new(loc)
    ffHist,       \* results of the pulls on the SplitFolderFileIter, in order
    ffOpens,      \* paths File::open was called with, in order
    ffLog,        \* the progress reports "files_done/nb_files", in order
    ffEvents,     \* what the pulls on the SplitFolderFileIter did, in program order
    sentenceids,  \* auto_ser harness: the sentence identifications of one document
    default_level, \* auto_ser harness: the base level
    ser,          \* what auto_ser(sentenceids, default_level) built, once it ran
    doc,          \* test_document harness: the document being written
    td,           \* test_document: the next column and the columns written so far
    batch,        \* write_docs harness: the documents handed to write_docs
    wres,         \* how the write_docs call ended, once it ran
    it,           \* iter_parquet harness: the DocumentFieldsIterator (inner, part_nb)
    itHist        \* results of the pulls on the DocumentFieldsIterator, in order

readerVars == <<content, cuts, r, gz, out, gzout>>
shardVars == <<fs, sf, sfHist, sfOpens, sfEvents, sfDepth>>
folderVars == <<loc, ff, ffHist, ffOpens, ffLog, ffEvents>>
serVars == <<sentenceids, default_level, ser>>
docVars == <<doc, td>>
batchVars == <<batch, wres>>
iterVars == <<it, itHist>>
vars == <<readerVars, shardVars, folderVars, serVars, docVars, batchVars, iterVars>>

(***************************************************************************)
(* Bounds                                                                  *)
(***************************************************************************)
\* longest enumerated byte content
MaxLen == 4
\* most gzip member boundaries inside one content
MaxCuts == 2
\* pulls made after a source has reported its end
MaxExtraPulls == 2
\* largest shard index that can hold a file
MaxIndex == 3
\* largest starting index of a SplitFileIter
MaxStart == 1
\* most entries of a listed directory
MaxEntries == 3
\* most sentence identifications of an enumerated document
MaxIds == 4
\* largest base level
MaxBase == 2
\* longest enumerated document content
MaxContentLen == 4
\* most documents in one write_docs call
MaxBatch == 3
\* pulls made on one DocumentFieldsIterator
MaxParts == 8

(***************************************************************************)
(* Program constants                                                       *)
(***************************************************************************)
\* the values of a u16 (default_level and the levels built from it)
U16Modulus == 65536

(***************************************************************************)
(* Generic helpers                                                         *)
(***************************************************************************)
None == [kind |-> "None"]

RECURSIVE SeqsUpTo(_, _)
SeqsUpTo(S, n) ==
    IF n = 0 THEN {<<>>}
    ELSE LET shorter == SeqsUpTo(S, n - 1)
         IN shorter \cup {Append(s, e) : s \in {t \in shorter : Len(t) = n - 1}, e \in S}

\* number of entries of h equal to None
RECURSIVE CountNone(_)
CountNone(h) ==
    IF h = <<>> THEN 0
    ELSE (IF Head(h) = None THEN 1 ELSE 0) + CountNone(Tail(h))

(***************************************************************************)
(* Streams and line framing: BufRead::read_line over fill_buf / consume    *)
(***************************************************************************)
\* a plain byte slice (or an in-memory cursor): fill_buf hands out all that is left
SliceReader(bytes) == IF bytes = <<>> THEN <<>> ELSE <<bytes>>

\* position of the first line feed of a chunk, 0 when it has none (memchr)
IndexOfNL(chunk) ==
    IF \E i \in 1..Len(chunk) : chunk[i] = "n"
    THEN CHOOSE i \in 1..Len(chunk) :
            chunk[i] = "n" /\ \A j \in 1..(i - 1) : chunk[j] # "n"
    ELSE 0

\* read_until(b'\n'): loops over fill_buf until a line feed was consumed or
\* fill_buf returns nothing
RECURSIVE read_until(_, _)
read_until(rd, acc) ==
    IF rd = <<>> THEN [buf |-> acc, r |-> rd]
    ELSE LET avail == Head(rd)
             i == IndexOfNL(avail)
         IN IF i > 0
            THEN [buf |-> acc \o SubSeq(avail, 1, i),
                  r |-> IF i = Len(avail) THEN Tail(rd)
                        ELSE <<SubSeq(avail, i + 1, Len(avail))>> \o Tail(rd)]
            ELSE read_until(Tail(rd), acc \o avail)

ValidUtf8(bytes) == \A i \in 1..Len(bytes) : bytes[i] # "u"

\* read_line: the bytes up to and including the next line feed are consumed;
\* when they are not UTF-8 the call fails (InvalidData) and the string stays empty
read_line(rd) ==
    LET got == read_until(rd, <<>>)
    IN IF ValidUtf8(got.buf)
       THEN [ok |-> TRUE, s |-> got.buf, r |-> got.r]
       ELSE [ok |-> FALSE, s |-> <<>>, r |-> got.r]

(***************************************************************************)
(* serde_json::from_str::<Document>                                        *)
(***************************************************************************)
\* s without the JSON whitespace at its end
RECURSIVE TrimEnd(_)
TrimEnd(s) ==
    IF s # <<>> /\ s[Len(s)] = "n" THEN TrimEnd(SubSeq(s, 1, Len(s) - 1)) ELSE s

DocTexts == {<<"a">>, <<"b">>}

from_str(s) ==
    IF TrimEnd(s) \in DocTexts
    THEN [kind |-> "Doc", text |-> TrimEnd(s)]
    ELSE [kind |-> "SerdeJson", text |-> s]

IoError(k) == [kind |-> "Io", text |-> <<k>>]

IsError(item) == item.kind \in {"SerdeJson", "Io"}

(***************************************************************************)
(* DocReader                                                               *)
(***************************************************************************)
\* a mutated next that gives up on the stream after a malformed line
DocReaderNext_StopOnBadLine(rd) ==
    LET line == read_line(rd)
    IN IF ~line.ok THEN [item |-> IoError("InvalidData"), r |-> line.r]
       ELSE IF Len(line.s) = 0 THEN [item |-> None, r |-> line.r]
       ELSE IF from_str(line.s).kind = "SerdeJson"
            THEN [item |-> from_str(line.s), r |-> <<>>]
            ELSE [item |-> from_str(line.s), r |-> line.r]

\* a mutated next that reports a last line without terminator as the end
DocReaderNext_DropUnterminated(rd) ==
    LET line == read_line(rd)
    IN IF ~line.ok THEN [item |-> IoError("InvalidData"), r |-> line.r]
       ELSE IF Len(line.s) = 0 \/ line.s[Len(line.s)] # "n"
            THEN [item |-> None, r |-> line.r]
       ELSE [item |-> from_str(line.s), r |-> line.r]

\* DocReader::next: the item of one pull and the reader after it
DocReaderNext(rd) ==
    LET line == read_line(rd)
    IN IF ~line.ok THEN [item |-> IoError("InvalidData"), r |-> line.r]
       ELSE IF Len(line.s) = 0 THEN [item |-> None, r |-> line.r]
       ELSE [item |-> from_str(line.s), r |-> line.r]

(***************************************************************************)
(* gzip: flate2's GzEncoder and MultiGzDecoder                             *)
(* A member is a header "H", its payload as deflate literals ("L", byte)   *)
(* and a trailer "T".                                                      *)
(***************************************************************************)
RECURSIVE GzLiterals(_)
GzLiterals(bytes) ==
    IF bytes = <<>> THEN <<>> ELSE <<"L", Head(bytes)>> \o GzLiterals(Tail(bytes))

GzMember(bytes) == <<"H">> \o GzLiterals(bytes) \o <<"T">>

\* the pieces of bytes between the cut positions cs, in order
RECURSIVE Pieces(_, _, _)
Pieces(bytes, from, cs) ==
    IF cs = {} THEN <<SubSeq(bytes, from + 1, Len(bytes))>>
    ELSE LET c == CHOOSE x \in cs : \A y \in cs : x <= y
         IN <<SubSeq(bytes, from + 1, c)>> \o Pieces(bytes, c, cs \ {c})

\* the compressed bytes: one member per piece, concatenated
RECURSIVE GzEncodeAll(_)
GzEncodeAll(ps) ==
    IF ps = <<>> THEN <<>> ELSE GzMember(Head(ps)) \o GzEncodeAll(Tail(ps))

GzEncode(bytes, cs) == GzEncodeAll(Pieces(bytes, 0, cs))

\* inflate the literals at the head of enc: the payload and what follows it
RECURSIVE Inflate(_, _)
Inflate(enc, acc) ==
    IF Len(enc) >= 2 /\ enc[1] = "L"
    THEN Inflate(SubSeq(enc, 3, Len(enc)), Append(acc, enc[2]))
    ELSE [payload |-> acc, rest |-> enc]

\* one member read off the head of enc
GzReadMember(enc) ==
    IF enc # <<>> /\ enc[1] = "H"
    THEN LET body == Inflate(Tail(enc), <<>>)
         IN IF body.rest # <<>> /\ body.rest[1] = "T"
            THEN [ok |-> TRUE, payload |-> body.payload, rest |-> Tail(body.rest)]
            ELSE [ok |-> FALSE, payload |-> body.payload, rest |-> <<>>]
    ELSE [ok |-> FALSE, payload |-> <<>>, rest |-> <<>>]

\* a mutated decoder that stops after the first member (a plain GzDecoder)
GzDecoder_FirstMemberOnly(enc) ==
    LET m == GzReadMember(enc)
    IN IF m.payload = <<>> THEN <<>> ELSE <<m.payload>>

\* BufReader<MultiGzDecoder>: a read never crosses a member boundary, an empty
\* member yields no read, and only the end of the input reads as nothing
RECURSIVE MultiGzDecoder(_)
MultiGzDecoder(enc) ==
    IF enc = <<>> THEN <<>>
    ELSE LET m == GzReadMember(enc)
         IN (IF m.payload = <<>> THEN <<>> ELSE <<m.payload>>)
            \o (IF m.ok THEN MultiGzDecoder(m.rest) ELSE <<>>)

\* DocReader::from_gzip(r).r
from_gzip(enc) == MultiGzDecoder(enc)

(***************************************************************************)
(* Files                                                                   *)
(***************************************************************************)
\* what files hold: nothing, one document, two documents (the last line
\* without terminator), and a malformed line, a line that is not UTF-8, a document
FileContents ==
    { <<>>,
      <<"a", "n">>,
      <<"a", "n", "b">>,
      <<"x", "n", "u", "n", "b", "n">> }

\* what File::open finds at a path: a readable file, or the io::ErrorKind
FileStates ==
    {[open |-> "Ok", bytes |-> c] : c \in FileContents}
        \cup {[open |-> k, bytes |-> <<>>] : k \in {"NotFound", "PermissionDenied"}}

OpenErrorKinds == {"NotFound", "PermissionDenied"}

\* Option<DocReader<BufReader<File>>>
NoFile == [open |-> FALSE, r |-> <<>>]
SomeFile(bytes) == [open |-> TRUE, r |-> SliceReader(bytes)]

\* every item a DocReader yields before its end
RECURSIVE AllItems(_)
AllItems(rd) ==
    LET res == DocReaderNext(rd)
    IN IF res.item = None THEN <<>> ELSE <<res.item>> \o AllItems(res.r)

(***************************************************************************)
(* SplitFileIter                                                           *)
(***************************************************************************)
\* File::open of {prefix}{i}{suffix}{extension}: no file exists past MaxIndex
ShardAt(files, i) ==
    IF i \in DOMAIN files THEN files[i] ELSE [open |-> "NotFound", bytes |-> <<>>]

SplitFileIterNew(counter_start) ==
    [counter_start |-> counter_start, counter |-> counter_start, current_file |-> NoFile]

\* a mutated rotate_file that advances the counter whether or not the open
\* succeeded
rotate_file_CountAttempts(s, files) ==
    LET f == ShardAt(files, s.counter)
    IN IF f.open = "Ok"
       THEN [ok |-> TRUE, err |-> "Ok",
             s |-> [s EXCEPT !.counter = @ + 1, !.current_file = SomeFile(f.bytes)],
             ev |-> <<"open", "advance">>]
       ELSE [ok |-> FALSE, err |-> f.open, s |-> [s EXCEPT !.counter = @ + 1],
             ev |-> <<"openfail", "advance">>]

\* rotate_file: open the file at counter; on success advance and keep it.
\* ev lists what the call did, in program order: "open" (File::open gave a
\* stream), "openfail", "advance" (the counter moved)
rotate_file(s, files) ==
    LET f == ShardAt(files, s.counter)
    IN IF f.open = "Ok"
       THEN [ok |-> TRUE, err |-> "Ok",
             s |-> [s EXCEPT !.counter = @ + 1, !.current_file = SomeFile(f.bytes)],
             ev |-> <<"open", "advance">>]
       ELSE [ok |-> FALSE, err |-> f.open, s |-> s, ev |-> <<"openfail">>]

\* a mutated test that takes any not-found for the end of the shards
ShardEndReached_NoFirstCheck(kind, s) == kind = "NotFound"

\* the test of next for the end of the shards: not found, after at least one
\* successful rotation
ShardEndReached(kind, s) == kind = "NotFound" /\ s.counter > s.counter_start

RECURSIVE SplitFileIterNext(_, _)

\* a mutated next that reports the end when the open file ends, and opens the
\* next shard only on the following pull
SplitFileIterNext_GapAtFileEnd(s, files) ==
    IF ~s.current_file.open
    THEN LET rot == rotate_file(s, files)
         IN IF rot.ok
            THEN LET rec == SplitFileIterNext(rot.s, files)
                 IN [rec EXCEPT !.opens = <<s.counter>> \o @, !.depth = @ + 1,
                                !.ev = rot.ev \o @]
            ELSE IF ShardEndReached(rot.err, rot.s)
                 THEN [item |-> None, s |-> rot.s, opens |-> <<s.counter>>,
                       depth |-> 1, ev |-> rot.ev]
                 ELSE [item |-> IoError(rot.err), s |-> rot.s,
                       opens |-> <<s.counter>>, depth |-> 1, ev |-> rot.ev]
    ELSE LET res == DocReaderNext(s.current_file.r)
         IN IF res.item # None
            THEN [item |-> res.item,
                  s |-> [s EXCEPT !.current_file = [open |-> TRUE, r |-> res.r]],
                  opens |-> <<>>, depth |-> 1, ev |-> <<>>]
            ELSE [item |-> None, s |-> [s EXCEPT !.current_file = NoFile],
                  opens |-> <<>>, depth |-> 1, ev |-> <<"eof", "release">>]

\* a mutated next that keeps the ended stream until the pull returns
SplitFileIterNext_LateRelease(s, files) ==
    IF ~s.current_file.open
    THEN LET rot == rotate_file(s, files)
         IN IF rot.ok
            THEN LET rec == SplitFileIterNext(rot.s, files)
                 IN [rec EXCEPT !.opens = <<s.counter>> \o @, !.depth = @ + 1,
                                !.ev = rot.ev \o @]
            ELSE IF ShardEndReached(rot.err, rot.s)
                 THEN [item |-> None, s |-> rot.s, opens |-> <<s.counter>>,
                       depth |-> 1, ev |-> rot.ev]
                 ELSE [item |-> IoError(rot.err), s |-> rot.s,
                       opens |-> <<s.counter>>, depth |-> 1, ev |-> rot.ev]
    ELSE LET res == DocReaderNext(s.current_file.r)
         IN IF res.item # None
            THEN [item |-> res.item,
                  s |-> [s EXCEPT !.current_file = [open |-> TRUE, r |-> res.r]],
                  opens |-> <<>>, depth |-> 1, ev |-> <<>>]
            ELSE LET rec == SplitFileIterNext([s EXCEPT !.current_file = NoFile], files)
                 IN [rec EXCEPT !.depth = @ + 1, !.ev = (<<"eof">> \o @) \o <<"release">>]

\* a mutated next that closes the open file when it yields an error
SplitFileIterNext_CloseOnError(s, files) ==
    IF ~s.current_file.open
    THEN LET rot == rotate_file(s, files)
         IN IF rot.ok
            THEN LET rec == SplitFileIterNext(rot.s, files)
                 IN [rec EXCEPT !.opens = <<s.counter>> \o @, !.depth = @ + 1,
                                !.ev = rot.ev \o @]
            ELSE IF ShardEndReached(rot.err, rot.s)
                 THEN [item |-> None, s |-> rot.s, opens |-> <<s.counter>>,
                       depth |-> 1, ev |-> rot.ev]
                 ELSE [item |-> IoError(rot.err), s |-> rot.s,
                       opens |-> <<s.counter>>, depth |-> 1, ev |-> rot.ev]
    ELSE LET res == DocReaderNext(s.current_file.r)
         IN IF res.item # None
            THEN [item |-> res.item,
                  s |-> [s EXCEPT !.current_file =
                             IF IsError(res.item) THEN NoFile
                             ELSE [open |-> TRUE, r |-> res.r]],
                  opens |-> <<>>, depth |-> 1, ev |-> <<>>]
            ELSE LET rec == SplitFileIterNext([s EXCEPT !.current_file = NoFile], files)
                 IN [rec EXCEPT !.depth = @ + 1, !.ev = <<"eof", "release">> \o @]

\* a mutated next that goes back to the first shard when it reports the end
SplitFileIterNext_RewindAtEnd(s, files) ==
    IF ~s.current_file.open
    THEN LET rot == rotate_file(s, files)
         IN IF rot.ok
            THEN LET rec == SplitFileIterNext(rot.s, files)
                 IN [rec EXCEPT !.opens = <<s.counter>> \o @, !.depth = @ + 1,
                                !.ev = rot.ev \o @]
            ELSE IF ShardEndReached(rot.err, rot.s)
                 THEN [item |-> None, s |-> SplitFileIterNew(rot.s.counter_start),
                       opens |-> <<s.counter>>, depth |-> 1, ev |-> rot.ev]
                 ELSE [item |-> IoError(rot.err), s |-> rot.s,
                       opens |-> <<s.counter>>, depth |-> 1, ev |-> rot.ev]
    ELSE LET res == DocReaderNext(s.current_file.r)
         IN IF res.item # None
            THEN [item |-> res.item,
                  s |-> [s EXCEPT !.current_file = [open |-> TRUE, r |-> res.r]],
                  opens |-> <<>>, depth |-> 1, ev |-> <<>>]
            ELSE LET rec == SplitFileIterNext([s EXCEPT !.current_file = NoFile], files)
                 IN [rec EXCEPT !.depth = @ + 1, !.ev = <<"eof", "release">> \o @]

\* SplitFileIter::next, its recursion unfolded: the item returned, the iterator
\* after the pull, the indices it tried to open, the depth of nested calls and
\* what the pull did, in program order ("eof": the open stream reported its
\* end, "release": current_file = None dropped it, and the events of rotate_file)
SplitFileIterNext(s, files) ==
    IF ~s.current_file.open
    THEN LET rot == rotate_file(s, files)
         IN IF rot.ok
            THEN LET rec == SplitFileIterNext(rot.s, files)
                 IN [rec EXCEPT !.opens = <<s.counter>> \o @, !.depth = @ + 1,
                                !.ev = rot.ev \o @]
            ELSE IF ShardEndReached(rot.err, rot.s)
                 THEN [item |-> None, s |-> rot.s, opens |-> <<s.counter>>,
                       depth |-> 1, ev |-> rot.ev]
                 ELSE [item |-> IoError(rot.err), s |-> rot.s,
                       opens |-> <<s.counter>>, depth |-> 1, ev |-> rot.ev]
    ELSE LET res == DocReaderNext(s.current_file.r)
         IN IF res.item # None
            THEN [item |-> res.item,
                  s |-> [s EXCEPT !.current_file = [open |-> TRUE, r |-> res.r]],
                  opens |-> <<>>, depth |-> 1, ev |-> <<>>]
            ELSE LET rec == SplitFileIterNext([s EXCEPT !.current_file = NoFile], files)
                 IN [rec EXCEPT !.depth = @ + 1, !.ev = <<"eof", "release">> \o @]

IsOpenError(item) == item.kind = "Io" /\ item.text[1] \in OpenErrorKinds

\* number of entries of h that report the end or a failed open
RECURSIVE CountEnds(_)
CountEnds(h) ==
    IF h = <<>> THEN 0
    ELSE (IF Head(h) = None \/ IsOpenError(Head(h)) THEN 1 ELSE 0) + CountEnds(Tail(h))

(***************************************************************************)
(* SplitFolderFileIter                                                     *)
(* A path is the sequence of the characters of its file name (the entries  *)
(* of one directory share everything before it).                           *)
(***************************************************************************)
\* the file names a location can hold, "1", "10", "2", "1a" and "3" as character codes
PathNames == << <<1>>, <<1, 0>>, <<2>>, <<1, 7>>, <<3>> >>

Paths == {PathNames[i] : i \in 1..MaxEntries}

\* Ord of PathBuf on the entries of one directory: the names, byte by byte
PathLess(p, q) ==
    \E i \in 1..(Len(p) + 1) :
        /\ i <= Len(q)
        /\ \A j \in 1..(i - 1) : p[j] = q[j]
        /\ (i > Len(p) \/ p[i] < q[i])

\* slice::sort_unstable, as an insertion sort
RECURSIVE InsertPath(_, _)
InsertPath(sorted, p) ==
    IF sorted = <<>> THEN <<p>>
    ELSE IF PathLess(p, Head(sorted)) THEN <<p>> \o sorted
    ELSE <<Head(sorted)>> \o InsertPath(Tail(sorted), p)

RECURSIVE sort_unstable(_)
sort_unstable(ps) ==
    IF ps = <<>> THEN <<>> ELSE InsertPath(sort_unstable(Tail(ps)), Head(ps))

\* slice::reverse
RECURSIVE reverse(_)
reverse(ps) == IF ps = <<>> THEN <<>> ELSE Append(reverse(Tail(ps)), Head(ps))

\* a directory entry: its path, whether it is a plain file, what File::open finds
Entries(p) ==
    {[path |-> p, is_file |-> TRUE, state |-> st] :
        st \in {f \in FileStates : f.open # "NotFound"}}
        \cup {[path |-> p, is_file |-> FALSE, state |-> [open |-> "PermissionDenied", bytes |-> <<>>]]}

\* the listings of a directory, in the order read_dir happens to return them
Listings ==
    {l \in UNION {[1..n -> UNION {Entries(p) : p \in Paths}] : n \in 0..MaxEntries} :
        \A i \in DOMAIN l : \A j \in DOMAIN l : i # j => l[i].path # l[j].path}

\* the locations a SplitFolderFileIter is built on: a plain file, a directory, nothing
Locations ==
    {[kind |-> "file", listing |-> <<e>>] : e \in {x \in Entries(PathNames[1]) : x.is_file}}
        \cup {[kind |-> "dir", listing |-> l] : l \in Listings}
        \cup {[kind |-> "missing", listing |-> <<>>]}

\* a mutated listing loop that pushes every entry, sub-directories included
PlainFiles_NoFilter(l) == [i \in 1..Len(l) |-> l[i].path]

\* the paths of the plain files of a listing, in listing order
RECURSIVE PlainFiles(_)
PlainFiles(l) ==
    IF l = <<>> THEN <<>>
    ELSE (IF Head(l).is_file THEN <<Head(l).path>> ELSE <<>>) \o PlainFiles(Tail(l))

FolderBuilt(files) ==
    [ok |-> TRUE, err |-> "Ok", current_file |-> NoFile, files |-> files,
     nb_files |-> Len(files), files_done |-> 0]

FolderFailed(e) ==
    [ok |-> FALSE, err |-> e, current_file |-> NoFile, files |-> <<>>,
     nb_files |-> 0, files_done |-> 0]

\* a mutated new that leaves the sorted list unreversed
SplitFolderFileIterNew_NoReverse(l) ==
    IF l.kind = "file" THEN FolderBuilt(<<l.listing[1].path>>)
    ELSE IF l.kind = "missing" THEN FolderFailed("NotFound")
    ELSE LET files == PlainFiles(l.listing)
         IN IF files = <<>> THEN FolderFailed("No files found")
            ELSE FolderBuilt(sort_unstable(files))

\* SplitFolderFileIter::new
SplitFolderFileIterNew(l) ==
    IF l.kind = "file" THEN FolderBuilt(<<l.listing[1].path>>)
    ELSE IF l.kind = "missing" THEN FolderFailed("NotFound")
    ELSE LET files == PlainFiles(l.listing)
         IN IF files = <<>> THEN FolderFailed("No files found")
            ELSE FolderBuilt(reverse(sort_unstable(files)))

\* File::open of a queued path
OpenPath(l, p) ==
    (CHOOSE e \in {l.listing[i] : i \in DOMAIN l.listing} : e.path = p).state

\* a mutated open_next_file that leaves a file that failed to open in the queue
open_next_file_KeepFailed(s, l) ==
    IF s.files = <<>>
    THEN [some |-> FALSE, ok |-> FALSE, err |-> "Ok", s |-> s, opens |-> <<>>,
          log |-> <<>>, ev |-> <<>>]
    ELSE LET p == s.files[Len(s.files)]
             popped == [s EXCEPT !.files = SubSeq(s.files, 1, Len(s.files) - 1)]
             f == OpenPath(l, p)
         IN IF f.open = "Ok"
            THEN [some |-> TRUE, ok |-> TRUE, err |-> "Ok",
                  s |-> [popped EXCEPT !.current_file = SomeFile(f.bytes),
                                       !.files_done = @ + 1],
                  opens |-> <<p>>,
                  log |-> << <<s.files_done + 1, s.nb_files>> >>,
                  ev |-> <<"advance", "open">>]
            ELSE [some |-> TRUE, ok |-> FALSE, err |-> f.open, s |-> s,
                  opens |-> <<p>>, log |-> <<>>, ev |-> <<"openfail">>]

\* a mutated open_next_file that counts and reports a failed open as well
open_next_file_CountFailed(s, l) ==
    IF s.files = <<>>
    THEN [some |-> FALSE, ok |-> FALSE, err |-> "Ok", s |-> s, opens |-> <<>>,
          log |-> <<>>, ev |-> <<>>]
    ELSE LET p == s.files[Len(s.files)]
             popped == [s EXCEPT !.files = SubSeq(s.files, 1, Len(s.files) - 1)]
             f == OpenPath(l, p)
         IN IF f.open = "Ok"
            THEN [some |-> TRUE, ok |-> TRUE, err |-> "Ok",
                  s |-> [popped EXCEPT !.current_file = SomeFile(f.bytes),
                                       !.files_done = @ + 1],
                  opens |-> <<p>>,
                  log |-> << <<s.files_done + 1, s.nb_files>> >>,
                  ev |-> <<"advance", "open">>]
            ELSE [some |-> TRUE, ok |-> FALSE, err |-> f.open,
                  s |-> [popped EXCEPT !.files_done = @ + 1],
                  opens |-> <<p>>,
                  log |-> << <<s.files_done + 1, s.nb_files>> >>,
                  ev |-> <<"advance", "openfail">>]

\* open_next_file: pop the last queued path ("advance") and open it
open_next_file(s, l) ==
    IF s.files = <<>>
    THEN [some |-> FALSE, ok |-> FALSE, err |-> "Ok", s |-> s, opens |-> <<>>,
          log |-> <<>>, ev |-> <<>>]
    ELSE LET p == s.files[Len(s.files)]
             popped == [s EXCEPT !.files = SubSeq(s.files, 1, Len(s.files) - 1)]
             f == OpenPath(l, p)
         IN IF f.open = "Ok"
            THEN [some |-> TRUE, ok |-> TRUE, err |-> "Ok",
                  s |-> [popped EXCEPT !.current_file = SomeFile(f.bytes),
                                       !.files_done = @ + 1],
                  opens |-> <<p>>,
                  log |-> << <<s.files_done + 1, s.nb_files>> >>,
                  ev |-> <<"advance", "open">>]
            ELSE [some |-> TRUE, ok |-> FALSE, err |-> f.open, s |-> popped,
                  opens |-> <<p>>, log |-> <<>>, ev |-> <<"advance", "openfail">>]

RECURSIVE SplitFolderFileIterNext(_, _)

\* a mutated next that passes over a file that fails to open without a word
SplitFolderFileIterNext_SkipFailed(s, l) ==
    IF ~s.current_file.open
    THEN LET o == open_next_file(s, l)
         IN IF o.some /\ o.ok
            THEN LET rec == SplitFolderFileIterNext(o.s, l)
                 IN [rec EXCEPT !.opens = o.opens \o @, !.log = o.log \o @,
                                !.depth = @ + 1, !.ev = o.ev \o @]
            ELSE IF o.some
                 THEN LET rec == SplitFolderFileIterNext(o.s, l)
                      IN [rec EXCEPT !.opens = o.opens \o @, !.depth = @ + 1,
                                     !.ev = o.ev \o @]
                 ELSE [item |-> None, s |-> o.s, opens |-> <<>>, log |-> <<>>,
                       depth |-> 1, ev |-> o.ev]
    ELSE LET res == DocReaderNext(s.current_file.r)
         IN IF res.item # None
            THEN [item |-> res.item,
                  s |-> [s EXCEPT !.current_file = [open |-> TRUE, r |-> res.r]],
                  opens |-> <<>>, log |-> <<>>, depth |-> 1, ev |-> <<>>]
            ELSE LET rec == SplitFolderFileIterNext([s EXCEPT !.current_file = NoFile], l)
                 IN [rec EXCEPT !.depth = @ + 1, !.ev = <<"eof", "release">> \o @]

\* SplitFolderFileIter::next, its recursion unfolded; t is the iterator as
\* the nested call finds it
SplitFolderFileIterNext(s, l) ==
    IF ~s.current_file.open
    THEN LET o == open_next_file(s, l)
         IN IF o.some /\ o.ok
            THEN LET rec == CHOOSE x \in {SplitFolderFileIterNext(t, l) : t \in {o.s}} : TRUE
                 IN [rec EXCEPT !.opens = o.opens \o @, !.log = o.log \o @,
                                !.depth = @ + 1, !.ev = o.ev \o @]
            ELSE IF o.some
                 THEN [item |-> IoError(o.err), s |-> o.s, opens |-> o.opens,
                       log |-> <<>>, depth |-> 1, ev |-> o.ev]
                 ELSE [item |-> None, s |-> o.s, opens |-> <<>>, log |-> <<>>,
                       depth |-> 1, ev |-> o.ev]
    ELSE LET res == DocReaderNext(s.current_file.r)
         IN IF res.item # None
            THEN [item |-> res.item,
                  s |-> [s EXCEPT !.current_file = [open |-> TRUE, r |-> res.r]],
                  opens |-> <<>>, log |-> <<>>, depth |-> 1, ev |-> <<>>]
            ELSE LET rec == CHOOSE x \in {SplitFolderFileIterNext(t, l) :
                                             t \in {[s EXCEPT !.current_file = NoFile]}} : TRUE
                 IN [rec EXCEPT !.depth = @ + 1, !.ev = <<"eof", "release">> \o @]

(***************************************************************************)
(* auto_ser: definition and repetition levels of sentence_identifications  *)
(***************************************************************************)
\* Option<Identification>; a probability is written in tenths
NoId == [some |-> FALSE, label |-> "", prob |-> 0]
SomeId(label, prob) == [some |-> TRUE, label |-> label, prob |-> prob]

Identifications == {SomeId("en", 10), SomeId("fr", 1)}

\* Option<ByteArray> and Option<&f32>
NoValue == [some |-> FALSE, val |-> <<>>]
SomeValue(v) == [some |-> TRUE, val |-> <<v>>]

\* u16 addition
U16Add(a, b) == (a + b) % U16Modulus

SerEmpty ==
    [panicked |-> FALSE, def_levels |-> <<>>, rep_levels |-> <<>>,
     ids |-> <<>>, probs |-> <<>>]

\* a mutated push that adds no value for an absent entry
SerPush_LevelsOnlyForAbsent(acc, id, prob, def, rep) ==
    IF id.some
    THEN [acc EXCEPT !.ids = Append(@, id), !.probs = Append(@, prob),
                     !.def_levels = Append(@, def), !.rep_levels = Append(@, rep)]
    ELSE [acc EXCEPT !.def_levels = Append(@, def), !.rep_levels = Append(@, rep)]

\* the four pushes of one step of auto_ser
SerPush(acc, id, prob, def, rep) ==
    [acc EXCEPT !.ids = Append(@, id), !.probs = Append(@, prob),
                !.def_levels = Append(@, def), !.rep_levels = Append(@, rep)]

\* a mutated first step that gives a present first entry the base definition level
auto_ser_first_PresentAtBase(sid, dl) ==
    IF ~sid.some
    THEN SerPush(SerEmpty, NoValue, NoValue, dl, dl)
    ELSE SerPush(SerEmpty, SomeValue(sid.label), SomeValue(sid.prob), dl, dl)

\* the first step of auto_ser, on the first entry
auto_ser_first(sid, dl) ==
    IF ~sid.some
    THEN SerPush(SerEmpty, NoValue, NoValue, dl, dl)
    ELSE SerPush(SerEmpty, SomeValue(sid.label), SomeValue(sid.prob), U16Add(dl, 1), dl)

RECURSIVE auto_ser_rest(_, _, _)

\* a mutated loop that gives a later absent entry the levels of a present one
auto_ser_rest_AbsentLikePresent(sids, dl, acc) ==
    IF sids = <<>> THEN acc
    ELSE LET sid == Head(sids)
         IN IF ~sid.some
            THEN auto_ser_rest(Tail(sids), dl,
                    SerPush(acc, NoValue, NoValue, U16Add(dl, 1), U16Add(dl, 1)))
            ELSE auto_ser_rest(Tail(sids), dl,
                    SerPush(acc, SomeValue(sid.label), SomeValue(sid.prob),
                            U16Add(dl, 1), U16Add(dl, 1)))

\* the loop of auto_ser, over the entries after the first
auto_ser_rest(sids, dl, acc) ==
    IF sids = <<>> THEN acc
    ELSE LET sid == Head(sids)
         IN IF ~sid.some
            THEN auto_ser_rest(Tail(sids), dl,
                    SerPush(acc, NoValue, NoValue, U16Add(dl, 1), dl))
            ELSE auto_ser_rest(Tail(sids), dl,
                    SerPush(acc, SomeValue(sid.label), SomeValue(sid.prob),
                            U16Add(dl, 1), U16Add(dl, 1)))

\* auto_ser: panics on an empty sequence
auto_ser(sids, dl) ==
    IF sids = <<>> THEN [SerEmpty EXCEPT !.panicked = TRUE]
    ELSE auto_ser_rest(Tail(sids), dl, auto_ser_first(Head(sids), dl))

(***************************************************************************)
(* Documents, DocGroup and the column batches of test_document             *)
(* (writer_parquet.rs).  A content byte is "n" (line feed) or "w" (any     *)
(* other character).                                                       *)
(***************************************************************************)
\* Metadata::new(identification, annotation, sentence_identifications)
Metadata(identification, annotation, sids) ==
    [identification |-> identification, annotation |-> annotation,
     sentence_identifications |-> sids]

\* Document::new(content, warc_headers, metadata)
Document(bytes, headers, metadata) ==
    [content |-> bytes, warc_headers |-> headers, metadata |-> metadata]

\* str::lines(): the pieces between line feeds, without them; a final line
\* feed opens no further line and the empty string has no line
RECURSIVE str_lines(_, _)
str_lines(bytes, cur) ==
    IF bytes = <<>> THEN (IF cur = <<>> THEN <<>> ELSE <<cur>>)
    ELSE IF Head(bytes) = "n" THEN <<cur>> \o str_lines(Tail(bytes), <<>>)
    ELSE str_lines(Tail(bytes), Append(cur, Head(bytes)))

\* a batch handed to write_batch, or the panic that came before it
Batch(vals, def, rep) ==
    [panicked |-> FALSE, vals |-> vals, def_levels |-> def, rep_levels |-> rep]

BatchPanic == [panicked |-> TRUE, vals |-> <<>>, def_levels |-> <<>>, rep_levels |-> <<>>]

\* lines_column pushing the 0 without reversing the vector afterwards
lines_column_NoReverse(d) ==
    LET lines == str_lines(d.content, <<>>)
        n == Len(lines)
    IN IF n = 0 THEN BatchPanic
       ELSE Batch(lines, [i \in 1..n |-> 1], Append([i \in 1..(n - 1) |-> 1], 0))

\* test_document, byte-array column 0: one value per line of the content;
\* lines.len() - 1 underflows on a content without lines
lines_column(d) ==
    LET lines == str_lines(d.content, <<>>)
        n == Len(lines)
    IN IF n = 0 THEN BatchPanic
       ELSE Batch(lines, [i \in 1..n |-> 1],
                  reverse(Append([i \in 1..(n - 1) |-> 1], 0)))

\* test_document, byte-array column 1: the label of each sentence
\* identification, the empty byte array for an absent one
label_column(d) ==
    LET sids == d.metadata.sentence_identifications
        labels == [i \in 1..Len(sids) |-> IF sids[i].some THEN sids[i].label ELSE ""]
    IN Batch(labels,
             [i \in 1..Len(labels) |-> IF labels[i] = "" THEN 2 ELSE 1],
             [i \in 1..Len(labels) |-> 2])

\* test_document, float column: the prob of each sentence identification,
\* 0.0 for an absent one
prob_column(d) ==
    LET sids == d.metadata.sentence_identifications
    IN Batch([i \in 1..Len(sids) |-> IF sids[i].some THEN sids[i].prob ELSE 0],
             [i \in 1..Len(sids) |-> IF ~sids[i].some THEN 1 ELSE 2],
             [i \in 1..Len(sids) |-> 1])

\* a mutated DocGroup::new that inserts each content at the front of contents
DocGroupNew_Prepend(docs) ==
    [contents |-> [i \in 1..Len(docs) |-> docs[Len(docs) + 1 - i].content],
     warc_headers |-> [i \in 1..Len(docs) |-> docs[i].warc_headers],
     annotations |-> [i \in 1..Len(docs) |-> docs[i].metadata.annotation],
     ids |-> [i \in 1..Len(docs) |-> docs[i].metadata.identification],
     line_ids |-> [i \in 1..Len(docs) |-> docs[i].metadata.sentence_identifications],
     nb_col |-> 0]

\* DocGroup::new(docs): one vector per document field, in document order
DocGroupNew(docs) ==
    [contents |-> [i \in 1..Len(docs) |-> docs[i].content],
     warc_headers |-> [i \in 1..Len(docs) |-> docs[i].warc_headers],
     annotations |-> [i \in 1..Len(docs) |-> docs[i].metadata.annotation],
     ids |-> [i \in 1..Len(docs) |-> docs[i].metadata.identification],
     line_ids |-> [i \in 1..Len(docs) |-> docs[i].metadata.sentence_identifications],
     nb_col |-> 0]

\* ParquetWriter::write_docs(docs): builds the DocGroup, then reaches todo!()
write_docs(docs) ==
    LET doc_grouped == DocGroupNew(docs)
    IN [called |-> TRUE, outcome |-> "panic", message |-> "not yet implemented",
        group |-> doc_grouped]

(***************************************************************************)
(* DocumentFieldsIterator (writer_parquet.rs)                              *)
(***************************************************************************)
\* Option<DocPart>
NoPart == [some |-> FALSE, kind |-> "None", val |-> <<>>]
SomePart(kind, val) == [some |-> TRUE, kind |-> kind, val |-> val]

\* Document::iter_parquet
iter_parquet(d) == [inner |-> d, part_nb |-> 0]

\* a mutated next that starts over after the last part
DocumentFieldsIteratorNext_Cycles(i) ==
    LET n == i.part_nb % 5
        ret == IF n = 0 THEN SomePart("Content", i.inner.content)
               ELSE IF n = 1 THEN SomePart("Warc", i.inner.warc_headers)
               ELSE IF n = 2 THEN SomePart("Annotation", i.inner.metadata.annotation)
               ELSE IF n = 3 THEN SomePart("Id", i.inner.metadata.identification)
               ELSE SomePart("LineIds", i.inner.metadata.sentence_identifications)
    IN [item |-> ret, i |-> [i EXCEPT !.part_nb = @ + 1]]

\* DocumentFieldsIterator::next
DocumentFieldsIteratorNext(i) ==
    LET ret == IF i.part_nb = 0 THEN SomePart("Content", i.inner.content)
               ELSE IF i.part_nb = 1 THEN SomePart("Warc", i.inner.warc_headers)
               ELSE IF i.part_nb = 2 THEN SomePart("Annotation", i.inner.metadata.annotation)
               ELSE IF i.part_nb = 3 THEN SomePart("Id", i.inner.metadata.identification)
               ELSE IF i.part_nb = 4
                    THEN SomePart("LineIds", i.inner.metadata.sentence_identifications)
               ELSE NoPart
    IN [item |-> ret, i |-> [i EXCEPT !.part_nb = @ + 1]]

(***************************************************************************)
(* Harnesses: each specification drives one component and leaves the      *)
(* variables of the others idle                                            *)
(***************************************************************************)
ShardIdle ==
    /\ fs = <<>>
    /\ sf = SplitFileIterNew(0)
    /\ sfHist = <<>>
    /\ sfOpens = <<>>
    /\ sfEvents = <<>>
    /\ sfDepth = 0

ReaderIdle ==
    /\ content = <<>>
    /\ cuts = {}
    /\ r = <<>>
    /\ gz = <<>>
    /\ out = <<>>
    /\ gzout = <<>>

FolderIdle ==
    /\ loc = [kind |-> "missing", listing |-> <<>>]
    /\ ff = FolderFailed("NotFound")
    /\ ffHist = <<>>
    /\ ffOpens = <<>>
    /\ ffLog = <<>>
    /\ ffEvents = <<>>

SerIdle ==
    /\ sentenceids = <<>>
    /\ default_level = 0
    /\ ser = [done |-> FALSE, res |-> SerEmpty]

\* Metadata::default()
DefaultMetadata == Metadata(SomeId("en", 10), NoValue, <<SomeId("en", 10)>>)

\* the state of test_document before the first column: the writer is at
\* the first column of the schema and nb_col is 0
TdStart == [col |-> 1, nb_col |-> 0, panicked |-> FALSE, written |-> <<>>]

\* no write_docs call has ended
NotCalled == [called |-> FALSE, outcome |-> "none", message |-> "", group |-> DocGroupNew(<<>>)]

DocIdle ==
    /\ doc = Document(<<>>, {}, DefaultMetadata)
    /\ td = TdStart

BatchIdle ==
    /\ batch = <<>>
    /\ wres = NotCalled

IterIdle ==
    /\ it = iter_parquet(Document(<<>>, {}, DefaultMetadata))
    /\ itHist = <<>>

(***************************************************************************)
(* SplitFileIter harness                                                   *)
(***************************************************************************)
InitShard ==
    /\ fs \in [0..MaxIndex -> FileStates]
    /\ \E start \in 0..MaxStart : sf = SplitFileIterNew(start)
    /\ sfHist = <<>>
    /\ sfOpens = <<>>
    /\ sfEvents = <<>>
    /\ sfDepth = 0
    /\ ReaderIdle
    /\ FolderIdle
    /\ SerIdle
    /\ DocIdle
    /\ BatchIdle
    /\ IterIdle

\* one pull on the SplitFileIter, where the program has one
ShardPull ==
    /\ fs # <<>>
    /\ CountEnds(sfHist) < MaxExtraPulls
    /\ LET res == SplitFileIterNext(sf, fs)
       IN /\ sf' = res.s
          /\ sfHist' = Append(sfHist, res.item)
          /\ sfOpens' = sfOpens \o res.opens
          /\ sfEvents' = sfEvents \o res.ev
          /\ sfDepth' = res.depth
    /\ UNCHANGED <<fs, readerVars, folderVars, serVars, docVars, batchVars, iterVars>>

NextShard == ShardPull

SpecShard == InitShard /\ [][NextShard]_vars

\* the files at start .. start+k-1 open and the one at start+k is missing
ShardsPresent(k) ==
    /\ \A i \in sf.counter_start..(sf.counter_start + k - 1) : ShardAt(fs, i).open = "Ok"
    /\ ShardAt(fs, sf.counter_start + k).open = "NotFound"

\* the items of the shards start .. start+k-1, concatenated
RECURSIVE ShardItems(_, _)
ShardItems(from, k) ==
    IF k = 0 THEN <<>>
    ELSE AllItems(SliceReader(ShardAt(fs, from).bytes)) \o ShardItems(from + 1, k - 1)

\* C1: with shards start .. start+k-1 present (k >= 1) and start+k missing, the
\* pulls yield the items of the shards in order with nothing in between, then the
\* end; no index above start+k is ever opened.
C1_ShardsConcatenated ==
    \A k \in 1..(MaxIndex + 1) :
        ShardsPresent(k) =>
            LET expected == ShardItems(sf.counter_start, k)
            IN /\ \A i \in 1..Len(sfHist) :
                    /\ i <= Len(expected) => sfHist[i] = expected[i]
                    /\ i > Len(expected) => sfHist[i] = None
               /\ \A j \in 1..Len(sfOpens) : sfOpens[j] <= sf.counter_start + k

\* an empty first shard is skipped within the first pull, the second shard's
\* document follows, then the end; a file past the gap exists and stays unopened
C1_Witness ==
    /\ sf.counter_start = 0
    /\ fs[0] = [open |-> "Ok", bytes |-> <<>>]
    /\ fs[1] = [open |-> "Ok", bytes |-> <<"a", "n">>]
    /\ fs[2].open = "NotFound"
    /\ fs[3].open = "Ok"
    /\ sfHist = <<[kind |-> "Doc", text |-> <<"a">>], None>>
    /\ sfOpens = <<0, 1, 2>>

\* C2: when the file at the starting index does not exist, the first pull yields
\* an error item, not the end of the sequence.
C2_MissingFirstShardIsError ==
    (ShardAt(fs, sf.counter_start).open = "NotFound" /\ Len(sfHist) >= 1)
        => sfHist[1] = IoError("NotFound")

C2_Witness ==
    /\ ShardAt(fs, sf.counter_start).open = "NotFound"
    /\ Len(sfHist) = 1
    /\ IsError(sfHist[1])

\* C3: after a failed open was surfaced as an error, every later pull yields the
\* end of the sequence.
C3_FatalErrorStops ==
    \A i \in 1..Len(sfHist) : \A j \in 1..Len(sfHist) :
        (i < j /\ IsOpenError(sfHist[i])) => sfHist[j] = None

(***************************************************************************)
(* SplitFolderFileIter harness                                             *)
(***************************************************************************)
InitFolder ==
    /\ loc \in Locations
    /\ ff = SplitFolderFileIterNew(loc)
    /\ ffHist = <<>>
    /\ ffOpens = <<>>
    /\ ffLog = <<>>
    /\ ffEvents = <<>>
    /\ ReaderIdle
    /\ ShardIdle
    /\ SerIdle
    /\ DocIdle
    /\ BatchIdle
    /\ IterIdle

\* one pull on the SplitFolderFileIter that new returned
FolderPull ==
    /\ ff.ok
    /\ CountNone(ffHist) < MaxExtraPulls
    /\ \E res \in {SplitFolderFileIterNext(ff, loc)} :
          /\ ff' = res.s
          /\ ffHist' = Append(ffHist, res.item)
          /\ ffOpens' = ffOpens \o res.opens
          /\ ffLog' = ffLog \o res.log
          /\ ffEvents' = ffEvents \o res.ev
    /\ UNCHANGED <<loc, readerVars, shardVars, serVars, docVars, batchVars, iterVars>>

NextFolder == FolderPull

SpecFolder == InitFolder /\ [][NextFolder]_vars

\* the paths of ps in ascending order
RECURSIVE Ascending(_)
Ascending(ps) ==
    IF ps = {} THEN <<>>
    ELSE LET least == CHOOSE p \in ps : \A q \in ps \ {p} : PathLess(p, q)
         IN <<least>> \o Ascending(ps \ {least})

\* the plain files the location holds, in ascending order of path
Discovered ==
    Ascending({loc.listing[i].path : i \in {j \in DOMAIN loc.listing : loc.listing[j].is_file}})

\* what the files ps yield, one after the other: the items of a file that opens,
\* one error for a file that does not
RECURSIVE FolderItems(_)
FolderItems(ps) ==
    IF ps = <<>> THEN <<>>
    ELSE LET f == OpenPath(loc, Head(ps))
         IN (IF f.open = "Ok" THEN AllItems(SliceReader(f.bytes)) ELSE <<IoError(f.open)>>)
            \o FolderItems(Tail(ps))

\* C4: a queued file that fails to open yields exactly one error item, is
\* discarded, and the following pull goes on with the next file: the pulls yield,
\* file by file in ascending order, the items of each file that opens and one
\* error for each file that does not, then the end.
C4_FailedOpenYieldsOneError ==
    ff.ok =>
        LET expected == FolderItems(Discovered)
        IN \A i \in 1..Len(ffHist) :
            /\ i <= Len(expected) => ffHist[i] = expected[i]
            /\ i > Len(expected) => ffHist[i] = None

\* three files, the second unreadable: the document of file 1, one error, the
\* document of file 3, then the end
C4_Witness ==
    /\ Len(Discovered) = 3
    /\ OpenPath(loc, Discovered[1]) = [open |-> "Ok", bytes |-> <<"a", "n">>]
    /\ OpenPath(loc, Discovered[2]).open = "PermissionDenied"
    /\ OpenPath(loc, Discovered[3]) = [open |-> "Ok", bytes |-> <<"a", "n">>]
    /\ Len(ffHist) = 4
    /\ ffHist[1].kind = "Doc" /\ IsOpenError(ffHist[2])
    /\ ffHist[3].kind = "Doc" /\ ffHist[4] = None

\* C5: the files are opened once each, smallest remaining path first; a pull
\* that returns the end leaves the queue empty and no stream open with every
\* discovered file tried, and a pull made with the queue empty and no stream open
\* returns the end.
C5_EveryFileOnceAscending ==
    ff.ok =>
        /\ Len(ffOpens) <= Len(Discovered)
        /\ \A i \in 1..Len(ffOpens) : ffOpens[i] = Discovered[i]
        /\ (ffHist # <<>> /\ ffHist[Len(ffHist)] = None) =>
              (ff.files = <<>> /\ ~ff.current_file.open /\ ffOpens = Discovered)
        /\ (ff.files = <<>> /\ ~ff.current_file.open) =>
              SplitFolderFileIterNext(ff, loc).item = None

\* three files listed out of order, all tried, the end reached
C5_Witness ==
    /\ loc.kind = "dir"
    /\ Len(Discovered) = 3
    /\ PlainFiles(loc.listing) # Discovered
    /\ PlainFiles(loc.listing) # reverse(Discovered)
    /\ ffOpens = Discovered
    /\ ffHist # <<>> /\ ffHist[Len(ffHist)] = None

(***************************************************************************)
(* DocReader harness: one content read plainly and through gzip            *)
(***************************************************************************)
\* the five-line sample with a malformed third line, and a sample with a line
\* that is not UTF-8
TestContents ==
    { <<"a", "n", "b", "n", "x", "n", "a", "n", "b">>,
      <<"a", "n", "u", "n", "b", "n">> }

Contents == SeqsUpTo({"n", "a", "x"}, MaxLen) \cup TestContents

CutSets(bytes) == {cs \in SUBSET (0..Len(bytes)) : Cardinality(cs) <= MaxCuts}

InitReader ==
    /\ content \in Contents
    /\ cuts \in CutSets(content)
    /\ r = SliceReader(content)
    /\ gz = from_gzip(GzEncode(content, cuts))
    /\ out = <<>>
    /\ gzout = <<>>
    /\ ShardIdle
    /\ FolderIdle
    /\ SerIdle
    /\ DocIdle
    /\ BatchIdle
    /\ IterIdle

\* one pull on DocReader::new(content)
Pull ==
    /\ CountNone(out) < MaxExtraPulls
    /\ LET res == DocReaderNext(r)
       IN /\ r' = res.r
          /\ out' = Append(out, res.item)
    /\ UNCHANGED <<content, cuts, gz, gzout, shardVars, folderVars, serVars, docVars, batchVars, iterVars>>

\* one pull on DocReader::from_gzip(gzip(content))
PullGz ==
    /\ CountNone(gzout) < MaxExtraPulls
    /\ LET res == DocReaderNext(gz)
       IN /\ gz' = res.r
          /\ gzout' = Append(gzout, res.item)
    /\ UNCHANGED <<content, cuts, r, out, shardVars, folderVars, serVars, docVars, batchVars, iterVars>>

NextReader == Pull \/ PullGz

SpecReader == InitReader /\ [][NextReader]_vars

\* the lines of bytes, each with its terminator when it has one
RECURSIVE SplitLines(_)
SplitLines(bytes) ==
    IF bytes = <<>> THEN <<>>
    ELSE LET i == IndexOfNL(bytes)
         IN IF i = 0 THEN <<bytes>>
            ELSE <<SubSeq(bytes, 1, i)>> \o SplitLines(SubSeq(bytes, i + 1, Len(bytes)))

Malformed(line) == ~ValidUtf8(line) \/ TrimEnd(line) \notin DocTexts

\* C6: the i-th of the first n pulls on a stream of n lines yields an item for
\* line i: an error iff line i is malformed, otherwise the Document of line i;
\* a malformed line costs exactly its own pull.
C6_MalformedLineIsolated ==
    LET lines == SplitLines(content)
    IN \A i \in 1..Len(out) :
        i <= Len(lines) =>
            /\ out[i] # None
            /\ IsError(out[i]) <=> Malformed(lines[i])
            /\ ~Malformed(lines[i]) => out[i] = [kind |-> "Doc", text |-> TrimEnd(lines[i])]
            /\ (ValidUtf8(lines[i]) /\ Malformed(lines[i]))
                  => out[i] = [kind |-> "SerdeJson", text |-> lines[i]]

\* the spec's example: malformed line 3 of 5 gave 2 documents, 1 error, 2 documents
C6_Witness ==
    /\ content = <<"a", "n", "b", "n", "x", "n", "a", "n", "b">>
    /\ Len(out) = 5
    /\ out[1].kind = "Doc" /\ out[2].kind = "Doc"
    /\ out[3].kind = "SerdeJson"
    /\ out[4].kind = "Doc" /\ out[5].kind = "Doc"

\* C7: pull by pull, the gzip reader yields what the plain reader yields over
\* the same content, the end included, however the content is cut into members.
C7_GzipSameAsPlain ==
    \A i \in 1..Len(out) : i <= Len(gzout) => gzout[i] = out[i]

\* both readers reached their end over a content cut twice, once inside a line
C7_Witness ==
    /\ Cardinality(cuts) = 2
    /\ \E c \in cuts : c > 0 /\ c < Len(content) /\ content[c] # "n"
    /\ Len(out) >= 3 /\ out[Len(out)] = None /\ out[1] # None /\ out[2] # None
    /\ Len(gzout) = Len(out) /\ gzout[Len(gzout)] = None

\* C8: over a stream of n lines the first n pulls yield an item, and pull n+1
\* and every later pull yield the end of the stream (never an error item).
C8_EndOfStreamAfterLastLine ==
    LET n == Len(SplitLines(content))
    IN \A i \in 1..Len(out) :
        /\ i <= n => out[i] # None
        /\ i > n => out[i] = None

\* two lines, the last without terminator, then the end twice
C8_Witness ==
    /\ Len(SplitLines(content)) = 2
    /\ content[Len(content)] # "n"
    /\ Len(out) = 4
    /\ out[2] # None /\ out[3] = None /\ out[4] = None

(***************************************************************************)
(* auto_ser harness                                                        *)
(***************************************************************************)
\* the sentence identifications of test_id_auto
TestSentenceIds ==
    << SomeId("en", 10), SomeId("fr", 1), SomeId("az", 2), NoId,
       SomeId("am", 3), NoId, SomeId("bar", 4), SomeId("zh", 5) >>

SentenceIds == SeqsUpTo(Identifications \cup {NoId}, MaxIds) \cup {TestSentenceIds}

InitSer ==
    /\ sentenceids \in SentenceIds
    /\ default_level \in 0..MaxBase
    /\ ser = [done |-> FALSE, res |-> SerEmpty]
    /\ ReaderIdle
    /\ ShardIdle
    /\ FolderIdle
    /\ DocIdle
    /\ BatchIdle
    /\ IterIdle

\* the call auto_ser(&sentence_ids, default_level)
AutoSer ==
    /\ ~ser.done
    /\ ser' = [done |-> TRUE, res |-> auto_ser(sentenceids, default_level)]
    /\ UNCHANGED <<sentenceids, default_level, readerVars, shardVars, folderVars, docVars, batchVars, iterVars>>

NextSer == AutoSer

SpecSer == InitSer /\ [][NextSer]_vars

\* C9: the first entry gets (definition, repetition) = (b, b) when it is absent
\* and (b+1, b) when it is present.
C9_FirstEntryLevels ==
    (ser.done /\ sentenceids # <<>>) =>
        /\ Len(ser.res.def_levels) >= 1 /\ Len(ser.res.rep_levels) >= 1
        /\ ~sentenceids[1].some =>
              (ser.res.def_levels[1] = default_level /\ ser.res.rep_levels[1] = default_level)
        /\ sentenceids[1].some =>
              (ser.res.def_levels[1] = default_level + 1
                 /\ ser.res.rep_levels[1] = default_level)

\* a present first entry at a base level above 0
C9_Witness ==
    /\ ser.done
    /\ Len(sentenceids) >= 2 /\ sentenceids[1].some
    /\ default_level = 1
    /\ ser.res.def_levels[1] = 2 /\ ser.res.rep_levels[1] = 1

\* C10: every entry after the first gets (definition, repetition) = (b+1, b+1),
\* absent or present.
C10_LaterEntryLevels ==
    (ser.done /\ ~ser.res.panicked) =>
        \A i \in 2..Len(sentenceids) :
            /\ ser.res.def_levels[i] = default_level + 1
            /\ ser.res.rep_levels[i] = default_level + 1

\* whether each entry of sids is present, in order
Pattern(sids) == [i \in 1..Len(sids) |-> sids[i].some]

\* C11: at base 0 the pattern [present, absent, present, present] encodes to
\* repetition levels [0,1,1,1] and definition levels [1,1,1,1]; the pattern
\* [absent, present] encodes to repetition levels [b, b] and definition levels
\* [b, b+1].
C11_SpecPatterns ==
    ser.done =>
        /\ (Pattern(sentenceids) = <<TRUE, FALSE, TRUE, TRUE>> /\ default_level = 0) =>
              (ser.res.rep_levels = <<0, 1, 1, 1>> /\ ser.res.def_levels = <<1, 1, 1, 1>>)
        /\ Pattern(sentenceids) = <<FALSE, TRUE>> =>
              (ser.res.rep_levels = <<default_level, default_level>>
                 /\ ser.res.def_levels = <<default_level, default_level + 1>>)

\* C12: at base 0 the definition level is 1 where the entry is present and 0
\* where it is absent, and the repetition level is 0 at the first position and 1
\* at every later one (the expected arrays of test_id_auto).
C12_TestExpectedLevels ==
    (ser.done /\ ~ser.res.panicked /\ default_level = 0) =>
        \A i \in 1..Len(sentenceids) :
            /\ ser.res.def_levels[i] = (IF sentenceids[i].some THEN 1 ELSE 0)
            /\ ser.res.rep_levels[i] = (IF i = 1 THEN 0 ELSE 1)

(***************************************************************************)
(* test_document harness                                                   *)
(***************************************************************************)
\* the physical types of the leaf columns of DOCUMENT_SCHEMA, in the order
\* next_column hands them out: sentence, label, prob
SchemaColumns == <<"BYTE_ARRAY", "BYTE_ARRAY", "FLOAT">>

\* the four lines of the content of test_document
TestDocContent == <<"w", "n", "w", "n", "w", "n", "w">>

DocContents == SeqsUpTo({"n", "w"}, MaxContentLen) \cup {TestDocContent}

InitDoc ==
    /\ \E c \in DocContents, sids \in SentenceIds :
          doc = Document(c, {}, Metadata(SomeId("fr", 8), SomeValue("adult"), sids))
    /\ td = TdStart
    /\ ReaderIdle
    /\ ShardIdle
    /\ FolderIdle
    /\ SerIdle
    /\ BatchIdle
    /\ IterIdle

\* whether the loop of test_document is at a column of type t
AtColumn(t) ==
    /\ ~td.panicked
    /\ td.col <= Len(SchemaColumns)
    /\ SchemaColumns[td.col] = t

\* the ByteArrayColumnWriter arm with nb_col = 0
WriteLinesColumn ==
    /\ AtColumn("BYTE_ARRAY")
    /\ td.nb_col = 0
    /\ LET b == lines_column(doc)
       IN td' = IF b.panicked THEN [td EXCEPT !.panicked = TRUE]
                ELSE [td EXCEPT !.col = @ + 1, !.nb_col = @ + 1,
                                !.written = Append(@, b)]
    /\ UNCHANGED <<doc, readerVars, shardVars, folderVars, serVars, batchVars, iterVars>>

\* the ByteArrayColumnWriter arm with nb_col = 1
WriteLabelColumn ==
    /\ AtColumn("BYTE_ARRAY")
    /\ td.nb_col = 1
    /\ td' = [td EXCEPT !.col = @ + 1, !.nb_col = @ + 1,
                        !.written = Append(@, label_column(doc))]
    /\ UNCHANGED <<doc, readerVars, shardVars, folderVars, serVars, batchVars, iterVars>>

\* the FloatColumnWriter arm
WriteProbColumn ==
    /\ AtColumn("FLOAT")
    /\ td' = [td EXCEPT !.col = @ + 1, !.written = Append(@, prob_column(doc))]
    /\ UNCHANGED <<doc, readerVars, shardVars, folderVars, serVars, batchVars, iterVars>>

NextDoc == WriteLinesColumn \/ WriteLabelColumn \/ WriteProbColumn

SpecDoc == InitDoc /\ [][NextDoc]_vars

\* the number of lines of a content: one per line feed, and one more for
\* what follows the last line feed when that is not empty
LineCount(bytes) ==
    Cardinality({i \in 1..Len(bytes) : bytes[i] = "n"})
      + (IF bytes # <<>> /\ bytes[Len(bytes)] # "n" THEN 1 ELSE 0)

\* C13: for a document of n >= 1 lines the sentence column is written with
\* n values, n definition levels that are all 1 and n repetition levels
\* that are 0 for the first line and 1 for every later line.
C13_ContentColumnLevels ==
    LET n == LineCount(doc.content)
    IN (n >= 1 /\ td # TdStart) =>
          /\ ~td.panicked
          /\ LET b == td.written[1]
             IN /\ Len(b.vals) = n
                /\ b.def_levels = [i \in 1..n |-> 1]
                /\ b.rep_levels = [i \in 1..n |-> IF i = 1 THEN 0 ELSE 1]

\* a content of three lines, one of them empty, whose sentence column was
\* written
C13_Witness ==
    /\ doc.content = <<"w", "n", "n", "w">>
    /\ td.nb_col = 1
    /\ td.written[1].vals = << <<"w">>, <<>>, <<"w">> >>
    /\ td.written[1].rep_levels = <<0, 1, 1>>

(***************************************************************************)
(* write_docs harness                                                      *)
(***************************************************************************)
\* the documents of the tests from_vec, foo and test_document
SampleDocs ==
    { Document(<<"w">>, {}, DefaultMetadata),
      Document(<<"w", "w">>, {}, DefaultMetadata),
      Document(<<"w", "n", "w">>, {}, DefaultMetadata),
      Document(<<"w", "w", "w">>, {}, DefaultMetadata),
      Document(TestDocContent, {},
               Metadata(SomeId("fr", 8), SomeValue("adult"),
                        <<SomeId("fr", 10), SomeId("fr", 10), SomeId("en", 10), NoId>>)) }

InitBatch ==
    /\ batch \in SeqsUpTo(SampleDocs, MaxBatch)
    /\ wres = NotCalled
    /\ ReaderIdle
    /\ ShardIdle
    /\ FolderIdle
    /\ SerIdle
    /\ DocIdle
    /\ IterIdle

\* the call w.write_docs(&batch)
WriteDocs ==
    /\ ~wres.called
    /\ wres' = write_docs(batch)
    /\ UNCHANGED <<batch, readerVars, shardVars, folderVars, serVars, docVars, iterVars>>

NextBatch == WriteDocs

SpecBatch == InitBatch /\ [][NextBatch]_vars

\* C14: a call of write_docs ends by returning a success or an error
\* value; it never panics.
C14_WriteDocsNeverPanics ==
    wres.called => wres.outcome \in {"Ok", "Err"}

(***************************************************************************)
(* Construction of the SplitFolderFileIter                                 *)
(***************************************************************************)
\* the paths of the entries of the location that are plain files
PlainFileSet == {loc.listing[i].path : i \in {j \in DOMAIN loc.listing : loc.listing[j].is_file}}

\* C15: right after construction, a location that is a plain file gives the
\* queue of exactly that file with total 1; a directory gives a queue that
\* holds each of its immediate plain-file entries once and nothing else; a
\* directory without a plain-file entry gives the "No files found" error and
\* no iterator; and a built iterator has a total equal to its queue length,
\* which is at least 1.
C15_Construction ==
    ffHist = <<>> =>
        /\ loc.kind = "file" =>
              (ff.ok /\ ff.files = <<loc.listing[1].path>> /\ ff.nb_files = 1)
        /\ (loc.kind = "dir" /\ PlainFileSet # {}) =>
              /\ ff.ok
              /\ {ff.files[i] : i \in DOMAIN ff.files} = PlainFileSet
              /\ Len(ff.files) = Cardinality(PlainFileSet)
        /\ (loc.kind = "dir" /\ PlainFileSet = {}) =>
              (~ff.ok /\ ff.err = "No files found")
        /\ ff.ok => (ff.nb_files = Len(ff.files) /\ ff.nb_files >= 1)

\* an iterator just built on a directory of two plain files and a
\* sub-directory
C15_Witness ==
    /\ ffHist = <<>>
    /\ loc.kind = "dir"
    /\ Len(loc.listing) = 3
    /\ Cardinality(PlainFileSet) = 2
    /\ ff.ok
    /\ Len(ff.files) = 2

(***************************************************************************)
(* Both sequencers: a program that pulls from a SplitFileIter, from a      *)
(* SplitFolderFileIter, or from one of each                                *)
(***************************************************************************)
\* a shard directory and a folder for a program that reads both: shards with
\* a valid line, no line, a malformed and a non-UTF-8 line; a folder with a
\* sub-directory and two files
PairShards ==
    [i \in 0..MaxIndex |->
        IF i = 0 THEN [open |-> "Ok", bytes |-> <<"a", "n">>]
        ELSE IF i = 1 THEN [open |-> "Ok", bytes |-> <<>>]
        ELSE IF i = 2 THEN [open |-> "Ok", bytes |-> <<"x", "n", "u", "n", "b", "n">>]
        ELSE [open |-> "NotFound", bytes |-> <<>>]]

PairFolder ==
    [kind |-> "dir",
     listing |-> << [path |-> PathNames[2], is_file |-> TRUE,
                     state |-> [open |-> "Ok", bytes |-> <<"x", "n", "u", "n", "b", "n">>]],
                    [path |-> PathNames[3], is_file |-> FALSE,
                     state |-> [open |-> "PermissionDenied", bytes |-> <<>>]],
                    [path |-> PathNames[1], is_file |-> TRUE,
                     state |-> [open |-> "Ok", bytes |-> <<"a", "n">>]] >>]

InitPair ==
    /\ fs = PairShards
    /\ sf = SplitFileIterNew(0)
    /\ sfHist = <<>>
    /\ sfOpens = <<>>
    /\ sfEvents = <<>>
    /\ sfDepth = 0
    /\ loc = PairFolder
    /\ ff = SplitFolderFileIterNew(loc)
    /\ ffHist = <<>>
    /\ ffOpens = <<>>
    /\ ffLog = <<>>
    /\ ffEvents = <<>>
    /\ ReaderIdle
    /\ SerIdle
    /\ DocIdle
    /\ BatchIdle
    /\ IterIdle

\* the locations, each set of entries in one read_dir order
OrderedLocations ==
    {l \in Locations :
        \A i \in DOMAIN l.listing : \A j \in DOMAIN l.listing :
            i < j => PathLess(l.listing[j].path, l.listing[i].path)}

\* a program with a SplitFolderFileIter only
InitFolderOrdered ==
    /\ loc \in OrderedLocations
    /\ ff = SplitFolderFileIterNew(loc)
    /\ ffHist = <<>>
    /\ ffOpens = <<>>
    /\ ffLog = <<>>
    /\ ffEvents = <<>>
    /\ ReaderIdle
    /\ ShardIdle
    /\ SerIdle
    /\ DocIdle
    /\ BatchIdle
    /\ IterIdle

InitSequencers == InitShard \/ InitFolderOrdered \/ InitPair

NextSequencers == ShardPull \/ FolderPull

SpecSequencers == InitSequencers /\ [][NextSequencers]_vars

\* the streams open after the events ev, starting from none: each "open"
\* adds one, each "release" removes one
RECURSIVE OpenStreams(_)
OpenStreams(ev) ==
    IF ev = <<>> THEN 0
    ELSE OpenStreams(SubSeq(ev, 1, Len(ev) - 1))
           + (IF ev[Len(ev)] = "open" THEN 1
              ELSE IF ev[Len(ev)] = "release" THEN -1 ELSE 0)

\* whether, in the events ev, at most one stream is ever open, a stream that
\* reported its end is released at once, and every open, open attempt and
\* cursor advance finds no ended stream still held
ReleasedBeforeAdvance(ev) ==
    \A k \in 1..Len(ev) :
        /\ OpenStreams(SubSeq(ev, 1, k)) \in {0, 1}
        /\ ev[k] = "eof" => (k < Len(ev) /\ ev[k + 1] = "release")
        /\ ev[k] \in {"open", "openfail"} => OpenStreams(SubSeq(ev, 1, k - 1)) = 0
        /\ ev[k] = "advance" =>
              \A j \in 1..(k - 1) :
                  ev[j] = "eof" => \E m \in (j + 1)..(k - 1) : ev[m] = "release"

\* C16: whatever pulls were made on a SplitFileIter or a SplitFolderFileIter,
\* at most one stream is open at any point, and a stream that reached its
\* clean end is released before the next file is opened and before the
\* shard index or the queue position advances; between pulls the sequencer
\* holds exactly the streams its current_file says.
C16_OneStreamReleasedFirst ==
    /\ ReleasedBeforeAdvance(sfEvents)
    /\ ReleasedBeforeAdvance(ffEvents)
    /\ OpenStreams(sfEvents) = (IF sf.current_file.open THEN 1 ELSE 0)
    /\ OpenStreams(ffEvents) = (IF ff.current_file.open THEN 1 ELSE 0)

\* both sequencers have met the end of one file and opened the next one
C16_Witness ==
    /\ \E k \in 1..(Len(sfEvents) - 2) :
          sfEvents[k] = "eof" /\ sfEvents[k + 1] = "release" /\ sfEvents[k + 2] = "open"
    /\ \E k \in 1..(Len(ffEvents) - 3) :
          /\ ffEvents[k] = "eof" /\ ffEvents[k + 1] = "release"
          /\ ffEvents[k + 2] = "advance" /\ ffEvents[k + 3] = "open"
    /\ sf.current_file.open
    /\ ff.current_file.open

\* C17: during one pull on a SplitFileIter the nested invocations of next
\* never exceed 3, the nesting of a pull that ends one shard and finds an
\* item in the next one, however many empty shards the pull has to skip.
C17_NestingBounded == sfDepth <= 3

\* an error that came from reading or parsing a line, not from opening a file
PerRecordError(item) == IsError(item) /\ ~IsOpenError(item)

\* the item an open source yields next is an error
SourceYieldsError(cf) == cf.open /\ IsError(DocReaderNext(cf.r).item)

\* C18: a pull on a sequencer whose open source yields a per-record error
\* yields that error and changes nothing but the read position of the
\* source: the source stays open and stands after the line just read, the
\* shard index, the file queue and the files-done count are unchanged, and
\* nothing is opened, released or reported; and after any pull that yielded
\* a per-record error, the file it came from is still open.
C18_ErrorLeavesStateUnchanged ==
    [][ /\ (SourceYieldsError(sf.current_file) /\ sfHist' # sfHist) =>
              LET res == DocReaderNext(sf.current_file.r)
              IN /\ sfHist' = Append(sfHist, res.item)
                 /\ sf' = [sf EXCEPT !.current_file = [open |-> TRUE, r |-> res.r]]
                 /\ sfOpens' = sfOpens
                 /\ sfEvents' = sfEvents
        /\ (SourceYieldsError(ff.current_file) /\ ffHist' # ffHist) =>
              LET res == DocReaderNext(ff.current_file.r)
              IN /\ ffHist' = Append(ffHist, res.item)
                 /\ ff' = [ff EXCEPT !.current_file = [open |-> TRUE, r |-> res.r]]
                 /\ ffOpens' = ffOpens
                 /\ ffLog' = ffLog
                 /\ ffEvents' = ffEvents
        /\ (Len(sfHist') = Len(sfHist) + 1 /\ PerRecordError(sfHist'[Len(sfHist')])) =>
              sf'.current_file.open
        /\ (Len(ffHist') = Len(ffHist) + 1 /\ PerRecordError(ffHist'[Len(ffHist')])) =>
              (ff'.current_file.open /\ ff'.nb_files = ff.nb_files)
      ]_vars

\* whether h holds a per-record error directly followed by a document
ErrorThenDocument(h) ==
    \E k \in 1..(Len(h) - 1) :
        PerRecordError(h[k]) /\ h[k + 1].kind = "Doc"

\* both sequencers yielded an error of their open file and then the
\* document of the following line of the same file
C18_Witness ==
    /\ ErrorThenDocument(sfHist)
    /\ ErrorThenDocument(ffHist)
    /\ sfOpens = <<0, 1, 2>>
    /\ Len(ffOpens) = 2
    /\ sf.current_file.open
    /\ ff.current_file.open

\* how many times e occurs in ev
RECURSIVE CountEvents(_, _)
CountEvents(ev, e) ==
    IF ev = <<>> THEN 0
    ELSE (IF Head(ev) = e THEN 1 ELSE 0) + CountEvents(Tail(ev), e)

\* C19: the counter of a SplitFileIter is always counter_start plus the
\* number of shards opened successfully so far; it moves only right after a
\* successful open, by one, and never back; and a pull that only makes a
\* failed open attempt leaves the iterator, without open source, as it was.
C19_IndexCountsOpens ==
    /\ [](/\ sf.counter = sf.counter_start + CountEvents(sfEvents, "open")
          /\ \A k \in 1..Len(sfEvents) :
                sfEvents[k] = "advance" <=> (k > 1 /\ sfEvents[k - 1] = "open"))
    /\ [][ /\ sf'.counter >= sf.counter
           /\ sf'.counter - sf.counter
                = CountEvents(sfEvents', "open") - CountEvents(sfEvents, "open")
           /\ (sfEvents' = Append(sfEvents, "openfail")) =>
                 (sf' = sf /\ ~sf.current_file.open)
         ]_vars

\* three shards were opened from start index 1 and the attempt on the
\* fourth failed
C19_Witness ==
    /\ sf.counter_start = 1
    /\ sf.counter = 4
    /\ sfOpens = <<1, 2, 3, 4>>
    /\ CountEvents(sfEvents, "open") = 3
    /\ sfEvents[Len(sfEvents)] = "openfail"
    /\ ~sf.current_file.open

\* whether every entry of h after a read error is the end of the stream
StopsAfterReadError(h) ==
    \A k \in 1..Len(h) :
        (h[k].kind = "Io" /\ PerRecordError(h[k])) =>
            \A j \in (k + 1)..Len(h) : h[j] = None

\* C20: once a DocReader, plain or gzip, has yielded an I/O read error,
\* every later pull on it yields nothing more from the stream.
C20_ReadErrorIsFatal ==
    /\ StopsAfterReadError(out)
    /\ StopsAfterReadError(gzout)

(***************************************************************************)
(* Progress reports of the SplitFolderFileIter                             *)
(***************************************************************************)
\* C21: a SplitFolderFileIter reports "i/total" once per successful open and
\* never for a failed one; the k-th report is k/nb_files with 1 <= k <=
\* nb_files; and files_done plus the paths still queued plus the paths that
\* failed to open is always nb_files.
C21_ProgressReports ==
    ff.ok =>
        /\ Len(ffLog) = CountEvents(ffEvents, "open")
        /\ Len(ffLog) = ff.files_done
        /\ \A k \in 1..Len(ffLog) :
              ffLog[k] = <<k, ff.nb_files>> /\ 1 <= k /\ k <= ff.nb_files
        /\ ff.files_done + Len(ff.files) + CountEvents(ffEvents, "openfail") = ff.nb_files

\* a directory of three files was read to its end; one file failed to open
\* and the other two were reported as 1/3 and 2/3
C21_Witness ==
    /\ ff.ok
    /\ ff.nb_files = 3
    /\ ffLog = << <<1, 3>>, <<2, 3>> >>
    /\ CountEvents(ffEvents, "openfail") = 1
    /\ ff.files = <<>>
    /\ ffHist # <<>> /\ ffHist[Len(ffHist)] = None

(***************************************************************************)
(* DocGroup::new                                                           *)
(***************************************************************************)
\* C22: the DocGroup built from a batch of n documents holds five sequences
\* of length n whose i-th elements are the content, the warc headers, the
\* annotation, the identification and the sentence identifications of the
\* i-th document, and building it leaves the batch as it was.
C22_DocGroupFields ==
    /\ [](wres.called =>
            LET g == wres.group
                n == Len(batch)
            IN /\ Len(g.contents) = n /\ Len(g.warc_headers) = n
               /\ Len(g.annotations) = n /\ Len(g.ids) = n /\ Len(g.line_ids) = n
               /\ \A i \in 1..n :
                     /\ g.contents[i] = batch[i].content
                     /\ g.warc_headers[i] = batch[i].warc_headers
                     /\ g.annotations[i] = batch[i].metadata.annotation
                     /\ g.ids[i] = batch[i].metadata.identification
                     /\ g.line_ids[i] = batch[i].metadata.sentence_identifications)
    /\ [][batch' = batch]_vars

\* a DocGroup was built from three documents that differ in content and in
\* metadata
C22_Witness ==
    /\ wres.called
    /\ Len(batch) = 3
    /\ batch[1].content # batch[2].content
    /\ batch[2].metadata # batch[3].metadata
    /\ Len(wres.group.line_ids[3]) = 4

(***************************************************************************)
(* Properties of the levels auto_ser builds                                *)
(***************************************************************************)
\* the definition and repetition levels of a result of auto_ser
Levels(res) == <<res.def_levels, res.rep_levels>>

\* C23: two sequences of the same length n >= 1 whose present/absent
\* patterns differ get different (definition levels, repetition levels)
\* from auto_ser at the same base level.
C23_PatternsDistinguished ==
    (ser.done /\ sentenceids # <<>>) =>
        \A other \in SentenceIds :
            (Len(other) = Len(sentenceids) /\ Pattern(other) # Pattern(sentenceids)) =>
                Levels(auto_ser(other, default_level)) # Levels(ser.res)

\* auto_ser ran on a sequence with an absent entry after the first; the
\* sequence with a present entry there has other levels
C23_Witness ==
    /\ ser.done
    /\ Pattern(sentenceids) = <<TRUE, FALSE, TRUE>>
    /\ Levels(ser.res)
         # Levels(auto_ser(<<SomeId("en", 10), SomeId("en", 10), SomeId("en", 10)>>,
                           default_level))

\* C24: at base level 0 the repetition levels auto_ser builds for a
\* non-empty sequence are 0 at the first position and at no other.
C24_RecordBoundaries ==
    (ser.done /\ sentenceids # <<>> /\ default_level = 0) =>
        \A i \in 1..Len(ser.res.rep_levels) : (ser.res.rep_levels[i] = 0) <=> (i = 1)

\* C25: for a non-empty sequence of n entries auto_ser builds labels,
\* probabilities, definition levels and repetition levels of length n each.
C25_LeafArrayLengths ==
    (ser.done /\ sentenceids # <<>>) =>
        /\ ~ser.res.panicked
        /\ Len(ser.res.ids) = Len(sentenceids)
        /\ Len(ser.res.probs) = Len(sentenceids)
        /\ Len(ser.res.def_levels) = Len(sentenceids)
        /\ Len(ser.res.rep_levels) = Len(sentenceids)

\* auto_ser ran on four entries, absent ones among them first and later
C25_Witness ==
    /\ ser.done
    /\ Pattern(sentenceids) = <<FALSE, TRUE, FALSE, TRUE>>
    /\ Len(ser.res.ids) = 4
    /\ ~ser.res.ids[3].some

\* C26: for a document whose content has no line and whose sentence
\* identifications are empty, the content-column step and auto_ser both
\* complete, with arrays of length 0.
C26_EmptyDocumentTotal ==
    (LineCount(doc.content) = 0 /\ doc.metadata.sentence_identifications = <<>>
        /\ td # TdStart) =>
        /\ ~td.panicked
        /\ Len(td.written) >= 1 /\ td.written[1].rep_levels = <<>>
        /\ ~auto_ser(doc.metadata.sentence_identifications, 0).panicked

(***************************************************************************)
(* The end of a sequence                                                   *)
(***************************************************************************)
\* whether the history h holds an end-of-sequence
Ended(h) == \E k \in 1..Len(h) : h[k] = None

\* C27: once a pull on a SplitFileIter or a SplitFolderFileIter has
\* returned the end of the sequence, every later pull returns it again and
\* leaves the iterator (counter, queue, files_done, current_file) as it was.
C27_EndIsStable ==
    [][ /\ (Ended(sfHist) /\ sfHist' # sfHist) =>
              (sfHist' = Append(sfHist, None) /\ sf' = sf)
        /\ (Ended(ffHist) /\ ffHist' # ffHist) =>
              (ffHist' = Append(ffHist, None) /\ ff' = ff /\ ffLog' = ffLog)
      ]_vars

\* both sequencers yielded items, then the end, and the end again
C27_Witness ==
    /\ Len(sfHist) >= 3 /\ sfHist[1] # None
    /\ sfHist[Len(sfHist) - 1] = None /\ sfHist[Len(sfHist)] = None
    /\ Len(ffHist) >= 3 /\ ffHist[1] # None
    /\ ffHist[Len(ffHist) - 1] = None /\ ffHist[Len(ffHist)] = None

\* the program before it has built any reader
InitUnbuilt ==
    /\ ReaderIdle
    /\ ShardIdle
    /\ FolderIdle
    /\ SerIdle
    /\ DocIdle
    /\ BatchIdle
    /\ IterIdle

\* the locations whose files are read without a read failure, each set of
\* entries in one read_dir order
ReadableLocations ==
    {l \in OrderedLocations :
        /\ l.kind # "missing"
        /\ \A i \in DOMAIN l.listing : ValidUtf8(l.listing[i].state.bytes)}

\* the call SplitFolderFileIter::new(location), on a location that exists
BuildFolder ==
    /\ loc.kind = "missing"
    /\ \E l \in ReadableLocations :
          /\ loc' = l
          /\ ff' = SplitFolderFileIterNew(l)
    /\ UNCHANGED <<ffHist, ffOpens, ffLog, ffEvents, readerVars, shardVars, serVars,
                   docVars, batchVars, iterVars>>

NextFolderFair == BuildFolder \/ FolderPull

\* a program that builds a SplitFolderFileIter and then keeps pulling from it
SpecFolderFair == InitUnbuilt /\ [][NextFolderFair]_vars /\ WF_vars(FolderPull)

\* the files of the location that File::open opens, and those it does not
OpenedFiles == {i \in DOMAIN loc.listing : loc.listing[i].is_file /\ loc.listing[i].state.open = "Ok"}

FailedFiles == {i \in DOMAIN loc.listing : loc.listing[i].is_file /\ loc.listing[i].state.open # "Ok"}

\* the lines of the files with the listing positions is, added up
RECURSIVE TotalLines(_)
TotalLines(is) ==
    IF is = {} THEN 0
    ELSE LET i == CHOOSE j \in is : TRUE
         IN LineCount(loc.listing[i].state.bytes) + TotalLines(is \ {i})

\* the items a history holds before its first end-of-sequence
RECURSIVE ItemsBeforeEnd(_)
ItemsBeforeEnd(h) ==
    IF h = <<>> \/ Head(h) = None THEN 0 ELSE 1 + ItemsBeforeEnd(Tail(h))

\* C28: a SplitFolderFileIter that is pulled again and again eventually
\* returns the end of the sequence, whichever files fail to open, and the
\* items yielded before the end are as many as the lines of the files that
\* opened plus the files that failed to open.
C28_TerminatesWithAllItems ==
    /\ ff.ok ~> Ended(ffHist)
    /\ [](Ended(ffHist) =>
            ItemsBeforeEnd(ffHist) = TotalLines(OpenedFiles) + Cardinality(FailedFiles))

\* a directory of three files, one of which fails to open, was read to the
\* end: five items came before the end
C28_Witness ==
    /\ Ended(ffHist)
    /\ Cardinality(FailedFiles) = 1
    /\ Cardinality(OpenedFiles) = 2
    /\ TotalLines(OpenedFiles) = 4
    /\ ItemsBeforeEnd(ffHist) = 5

(***************************************************************************)
(* iter_parquet harness                                                    *)
(***************************************************************************)
\* documents to iterate: those of the tests, and documents with and without
\* content, warc headers, annotation and sentence identifications
IterDocs ==
    SampleDocs
      \cup {Document(c, h, Metadata(SomeId("fr", 8), a, sids)) :
              c \in DocContents,
              h \in {{}, {<<"warc-type", "conversion">>}},
              a \in {NoValue, SomeValue("adult")},
              sids \in {<<>>, <<NoId>>, <<SomeId("en", 10), NoId>>}}

InitIter ==
    /\ \E d \in IterDocs : it = iter_parquet(d)
    /\ itHist = <<>>
    /\ ReaderIdle
    /\ ShardIdle
    /\ FolderIdle
    /\ SerIdle
    /\ DocIdle
    /\ BatchIdle

\* one pull on the DocumentFieldsIterator
IterPull ==
    /\ Len(itHist) < MaxParts
    /\ LET res == DocumentFieldsIteratorNext(it)
       IN /\ it' = res.i
          /\ itHist' = Append(itHist, res.item)
    /\ UNCHANGED <<readerVars, shardVars, folderVars, serVars, docVars, batchVars>>

NextIter == IterPull

SpecIter == InitIter /\ [][NextIter]_vars

\* the kinds of the parts of a document, in the order of its fields
PartOrder == <<"Content", "Warc", "Annotation", "Id", "LineIds">>

\* the field of document d that a part of kind k refers to
FieldOf(d, k) ==
    IF k = "Content" THEN d.content
    ELSE IF k = "Warc" THEN d.warc_headers
    ELSE IF k = "Annotation" THEN d.metadata.annotation
    ELSE IF k = "Id" THEN d.metadata.identification
    ELSE d.metadata.sentence_identifications

\* C29: the first five pulls on the field iterator of a document yield its
\* Content, Warc, Annotation, Id and LineIds part, in this order, each
\* holding that field of the document; the sixth and every later pull
\* yield the end.
C29_FiveFieldsThenEnd ==
    \A k \in 1..Len(itHist) :
        IF k <= 5
        THEN /\ itHist[k].some
             /\ itHist[k].kind = PartOrder[k]
             /\ itHist[k].val = FieldOf(it.inner, PartOrder[k])
        ELSE ~itHist[k].some

\* the iterator of the document of test_document was pulled seven times
C29_Witness ==
    /\ it.inner.content = TestDocContent
    /\ Len(it.inner.metadata.sentence_identifications) = 4
    /\ Len(itHist) = 7
    /\ itHist[5].kind = "LineIds"
    /\ ~itHist[6].some /\ ~itHist[7].some

(***************************************************************************)
(* The label and prob leaves of test_document                              *)
(***************************************************************************)
\* C30: in test_document the label column has definition level 2 where the
\* sentence identification is present and 1 where it is absent, and so has
\* the definition levels of the prob column, position by position.
C30_LabelLevelsAgreeWithProb ==
    LET sids == doc.metadata.sentence_identifications
    IN /\ Len(td.written) >= 2 =>
             td.written[2].def_levels = [i \in 1..Len(sids) |-> IF sids[i].some THEN 2 ELSE 1]
       /\ Len(td.written) = 3 =>
             td.written[2].def_levels = td.written[3].def_levels
====
